---- MODULE Spec2Model ----
(***************************************************************************)
(* Texture swizzling routines of hw/xbox/nv2a/swizzle.c.                   *)
(*                                                                         *)
(* A uint32_t is modelled exactly, as the set of the positions of its set  *)
(* bits (a subset of 0..31): shifts drop the bits that leave the word, so  *)
(* every operation wraps as the C code does.                               *)
(***************************************************************************)
EXTENDS Integers, FiniteSets, Sequences, TLC

\* ------------------------------------------------------------------ bounds

\* Largest width/height/depth of the mask-generator runs.
MaxGenDim == 16
\* Largest width/height/depth of the box-copy runs.
MaxDim == 4
\* Largest bytes_per_pixel of the box-copy runs.
MaxBpp == 2
\* Largest number of padding bytes after a row / after a slice.
MaxPad == 1
\* Largest number of pixels of a box whose copies run in arbitrary order.
MaxParPixels == 6
\* Largest of the small dimensions of the 32-bit mask-generator runs.
MaxWideSmall == 5
\* Number of mask positions the scatter runs choose their masks from.
MaskBits == 5

\* ------------------------------------------------------- 32-bit words

\* Width of uint32_t.
W == 32

BitPos == 0 .. (W - 1)

Shl(a, s) == {i + s : i \in {j \in a : j + s < W}}

Shr(a, s) == {i - s : i \in {j \in a : j >= s}}

Xor(a, b) == (a \ b) \cup (b \ a)

Not(a) == BitPos \ a

\* The word of a natural number below 2^31.
ToWord(n) == {i \in 0 .. (W - 2) : (n \div (2 ^ i)) % 2 = 1}

RECURSIVE Val(_)
\* The natural number of a word (for words below 2^31).
Val(a) ==
    IF a = {} THEN 0
    ELSE LET i == CHOOSE j \in a : \A k \in a : k <= j
         IN  (2 ^ i) + Val(a \ {i})

\* Unsigned a < b: the highest position where they differ is set in b.
Less(a, b) == \E i \in b \ a : \A j \in a \ b : j < i

\* a - 1 modulo 2^32.
Dec(a) ==
    IF a = {} THEN BitPos
    ELSE LET l == CHOOSE j \in a : \A k \in a : j <= k
         IN  (a \ {l}) \cup (0 .. (l - 1))

\* ------------------------------------------- generate_swizzle_masks

\* The frame of generate_swizzle_masks at its first statement (lines 45-47):
\* the arguments as unsigned ints, and the locals.
GenStart(width, height, depth) ==
    [width |-> width, height |-> height, depth |-> depth,
     x |-> {}, y |-> {}, z |-> {}, bit |-> {0}, mask_bit |-> {0}, done |-> FALSE]

\* Mutant: the Y axis takes mask_bit without advancing it.
RoundYKeepsMaskBit(s) ==
    LET s0 == [s EXCEPT !.done = TRUE]
        s1 == IF Less(s0.bit, s.width)
              THEN [s0 EXCEPT !.x = @ \cup s0.mask_bit, !.mask_bit = Shl(@, 1), !.done = FALSE]
              ELSE s0
        s2 == IF Less(s1.bit, s.height)
              THEN [s1 EXCEPT !.y = @ \cup s1.mask_bit, !.done = FALSE]
              ELSE s1
        s3 == IF Less(s2.bit, s.depth)
              THEN [s2 EXCEPT !.z = @ \cup s2.mask_bit, !.mask_bit = Shl(@, 1), !.done = FALSE]
              ELSE s2
    IN  [s3 EXCEPT !.bit = Shl(@, 1)]

\* Mutant: the axes are served in the order Y, X, Z.
RoundYFirst(s) ==
    LET s0 == [s EXCEPT !.done = TRUE]
        s1 == IF Less(s0.bit, s.height)
              THEN [s0 EXCEPT !.y = @ \cup s0.mask_bit, !.mask_bit = Shl(@, 1), !.done = FALSE]
              ELSE s0
        s2 == IF Less(s1.bit, s.width)
              THEN [s1 EXCEPT !.x = @ \cup s1.mask_bit, !.mask_bit = Shl(@, 1), !.done = FALSE]
              ELSE s1
        s3 == IF Less(s2.bit, s.depth)
              THEN [s2 EXCEPT !.z = @ \cup s2.mask_bit, !.mask_bit = Shl(@, 1), !.done = FALSE]
              ELSE s2
    IN  [s3 EXCEPT !.bit = Shl(@, 1)]

\* Mutant: the threshold test is bit <= dimension.
RoundLessEq(s) ==
    LET s0 == [s EXCEPT !.done = TRUE]
        s1 == IF ~Less(s.width, s0.bit)
              THEN [s0 EXCEPT !.x = @ \cup s0.mask_bit, !.mask_bit = Shl(@, 1), !.done = FALSE]
              ELSE s0
        s2 == IF ~Less(s.height, s1.bit)
              THEN [s1 EXCEPT !.y = @ \cup s1.mask_bit, !.mask_bit = Shl(@, 1), !.done = FALSE]
              ELSE s1
        s3 == IF ~Less(s.depth, s2.bit)
              THEN [s2 EXCEPT !.z = @ \cup s2.mask_bit, !.mask_bit = Shl(@, 1), !.done = FALSE]
              ELSE s2
    IN  [s3 EXCEPT !.bit = Shl(@, 1)]

\* Mutant: the threshold cursor is not doubled at the end of the round.
RoundKeepsBit(s) ==
    LET s0 == [s EXCEPT !.done = TRUE]
        s1 == IF Less(s0.bit, s.width)
              THEN [s0 EXCEPT !.x = @ \cup s0.mask_bit, !.mask_bit = Shl(@, 1), !.done = FALSE]
              ELSE s0
        s2 == IF Less(s1.bit, s.height)
              THEN [s1 EXCEPT !.y = @ \cup s1.mask_bit, !.mask_bit = Shl(@, 1), !.done = FALSE]
              ELSE s1
        s3 == IF Less(s2.bit, s.depth)
              THEN [s2 EXCEPT !.z = @ \cup s2.mask_bit, !.mask_bit = Shl(@, 1), !.done = FALSE]
              ELSE s2
    IN  s3

\* One iteration of the do/while body (lines 50-54).
Round(s) ==
    LET s0 == [s EXCEPT !.done = TRUE]
        s1 == IF Less(s0.bit, s.width)
              THEN [s0 EXCEPT !.x = @ \cup s0.mask_bit, !.mask_bit = Shl(@, 1), !.done = FALSE]
              ELSE s0
        s2 == IF Less(s1.bit, s.height)
              THEN [s1 EXCEPT !.y = @ \cup s1.mask_bit, !.mask_bit = Shl(@, 1), !.done = FALSE]
              ELSE s1
        s3 == IF Less(s2.bit, s.depth)
              THEN [s2 EXCEPT !.z = @ \cup s2.mask_bit, !.mask_bit = Shl(@, 1), !.done = FALSE]
              ELSE s2
    IN  [s3 EXCEPT !.bit = Shl(@, 1)]

\* The assertion of line 56.
GenAssertion(s) == Xor(Xor(s.x, s.y), s.z) = Dec(s.mask_bit)

RECURSIVE GenLoop(_)
\* The do/while loop run to its end.
GenLoop(s) ==
    LET t == Round(s)
    IN  IF t.done THEN t ELSE GenLoop(t)

\* generate_swizzle_masks as a function: the three masks it stores.
generate_swizzle_masks(width, height, depth) ==
    LET t == GenLoop(GenStart(width, height, depth))
    IN  [mask_x |-> t.x, mask_y |-> t.y, mask_z |-> t.z, mask_bit |-> t.mask_bit]

\* ------------------------------ generate_expand_mask_moves and expand

\* The frame of generate_expand_mask_moves before its loop (lines 76-78).
\* moves holds the entries written so far: the array starts uninitialized.
MovesStart(mask) ==
    [orig |-> mask, mask |-> mask, mk |-> Shl(Not(mask), 1), moves |-> <<>>, i |-> 0]

\* Mutant: the working mask is not compressed after a stage.
MovesStageNoCompress(s) ==
    LET mp0 == Xor(s.mk, Shl(s.mk, 1))
        mp1 == Xor(mp0, Shl(mp0, 2))
        mp2 == Xor(mp1, Shl(mp1, 4))
        mp3 == Xor(mp2, Shl(mp2, 8))
        mp  == Xor(mp3, Shl(mp3, 16))
        mv  == mp \cap s.mask
    IN  [s EXCEPT !.moves = Append(@, mv),
                  !.mk = s.mk \cap Not(mp),
                  !.i = @ + 1]

\* One iteration of the loop of generate_expand_mask_moves (lines 80-88).
\* moves[i] of the C array is moves[i + 1] of the sequence.
MovesStage(s) ==
    LET mp0 == Xor(s.mk, Shl(s.mk, 1))
        mp1 == Xor(mp0, Shl(mp0, 2))
        mp2 == Xor(mp1, Shl(mp1, 4))
        mp3 == Xor(mp2, Shl(mp2, 8))
        mp  == Xor(mp3, Shl(mp3, 16))
        mv  == mp \cap s.mask
    IN  [s EXCEPT !.moves = Append(@, mv),
                  !.mask = Xor(s.mask, mv) \cup Shr(mv, 2 ^ s.i),
                  !.mk = s.mk \cap Not(mp),
                  !.i = @ + 1]

\* Number of stages of the expand network.
Stages == 5

RECURSIVE MovesLoop(_)
MovesLoop(s) == IF s.i < Stages THEN MovesLoop(MovesStage(s)) ELSE s

\* generate_expand_mask_moves as a function: the expand_mask struct it fills.
generate_expand_mask_moves(mask) ==
    [mask |-> mask, moves |-> MovesLoop(MovesStart(mask)).moves]

\* The frame of expand before its loop (line 98).
ExpandStart(x, em) == [x |-> x, em |-> em, i |-> Stages - 1]

\* One iteration of the loop of expand (lines 99-101).
ExpandStage(s) ==
    LET mv == s.em.moves[s.i + 1]
        t  == Shl(s.x, 2 ^ s.i)
    IN  [s EXCEPT !.x = (s.x \cap Not(mv)) \cup (t \cap mv), !.i = @ - 1]

RECURSIVE ExpandLoop(_)
ExpandLoop(s) == IF s.i >= 0 THEN ExpandLoop(ExpandStage(s)) ELSE s

\* The value expand returns from the frame after its loop (line 103).
ExpandResult(s) == s.x \cap s.em.mask

\* expand, the table-driven path (lines 97-103).
expand(x, em) == ExpandResult(ExpandLoop(ExpandStart(x, em)))

\* Reference bit deposit: bit i of x goes to the i-th lowest set bit of mask.
Pdep(x, mask) == {p \in mask : Cardinality({q \in mask : q < p}) \in x}

\* ------------------------------------------- the box copier

\* Mutant: the Y coordinate contributes no bits to the offset.
get_swizzled_offset_without_y(x, y, z, mask_x, mask_y, mask_z, bytes_per_pixel) ==
    bytes_per_pixel * Val(expand(ToWord(x), mask_x) \cup expand(ToWord(z), mask_z))

\* get_swizzled_offset (lines 107-115). The coordinates arrive as unsigned ints.
get_swizzled_offset(x, y, z, mask_x, mask_y, mask_z, bytes_per_pixel) ==
    bytes_per_pixel * Val(expand(ToWord(x), mask_x)
                            \cup expand(ToWord(y), mask_y)
                            \cup expand(ToWord(z), mask_z))

\* A buffer of n bytes is a function on 0 .. n-1.
Size(buf) == Cardinality(DOMAIN buf)

\* What a read outside a buffer yields is undefined; InBounds records the event.
Garbage == -1

\* The byte at address a of a buffer.
ByteAt(buf, a) == IF a \in DOMAIN buf THEN buf[a] ELSE Garbage

\* memcpy(dst + d, src + s, n): the destination buffer afterwards.
Memcpy(dst, d, src, s, n) ==
    [a \in DOMAIN dst |-> IF d <= a /\ a < d + n THEN ByteAt(src, s + (a - d)) ELSE dst[a]]

\* The copy stays inside both buffers (outside them the behaviour is undefined).
InBounds(dst, d, src, s, n) == d + n <= Size(dst) /\ s + n <= Size(src)

\* An expand_mask struct whose fields are not set yet.
NoExpandMask == [mask |-> {}, moves |-> <<>>]

\* The frame of swizzle_box / unswizzle_box on entry (lines 117-126, 149-158).
\* base is how far the linear-side pointer has been advanced (lines 145, 176);
\* oob records that an access left a buffer.
BoxFrame(fn, src_buf, width, height, depth, dst_buf, row_pitch, slice_pitch, bytes_per_pixel) ==
    [fn |-> fn, src_buf |-> src_buf, width |-> width, height |-> height, depth |-> depth,
     dst_buf |-> dst_buf, row_pitch |-> row_pitch, slice_pitch |-> slice_pitch,
     bytes_per_pixel |-> bytes_per_pixel,
     mask_x |-> NoExpandMask, mask_y |-> NoExpandMask, mask_z |-> NoExpandMask,
     x |-> 0, y |-> 0, z |-> 0, base |-> 0, oob |-> FALSE]

\* The masks and scatter tables, and the loop counters at 0 (lines 127-134).
BoxSetup(f) ==
    LET m == generate_swizzle_masks(ToWord(f.width), ToWord(f.height), ToWord(f.depth))
    IN  [f EXCEPT !.mask_x = generate_expand_mask_moves(m.mask_x),
                  !.mask_y = generate_expand_mask_moves(m.mask_y),
                  !.mask_z = generate_expand_mask_moves(m.mask_z),
                  !.x = 0, !.y = 0, !.z = 0]

\* Byte offset of the current pixel on the swizzled side.
SwizzledOffset(f) ==
    get_swizzled_offset(f.x, f.y, f.z, f.mask_x, f.mask_y, f.mask_z, f.bytes_per_pixel)

\* Byte offset of the current pixel on the linear side (lines 137-138, 172).
LinearOffset(f) == f.base + f.y * f.row_pitch + f.x * f.bytes_per_pixel

\* The loop body of swizzle_box (lines 137-142).
SwizzleCopy(f) ==
    LET s == LinearOffset(f)
        d == SwizzledOffset(f)
    IN  [f EXCEPT !.dst_buf = Memcpy(f.dst_buf, d, f.src_buf, s, f.bytes_per_pixel),
                  !.oob = @ \/ ~InBounds(f.dst_buf, d, f.src_buf, s, f.bytes_per_pixel)]

\* The loop body of unswizzle_box (lines 169-173).
UnswizzleCopy(f) ==
    LET s == SwizzledOffset(f)
        d == LinearOffset(f)
    IN  [f EXCEPT !.dst_buf = Memcpy(f.dst_buf, d, f.src_buf, s, f.bytes_per_pixel),
                  !.oob = @ \/ ~InBounds(f.dst_buf, d, f.src_buf, s, f.bytes_per_pixel)]

\* The loop body of the running function.
PixelCopy(f) == IF f.fn = "swizzle_box" THEN SwizzleCopy(f) ELSE UnswizzleCopy(f)

\* Mutant: the linear-side pointer is not advanced after a slice.
LoopAdvanceKeepsBase(f) ==
    IF f.x + 1 < f.width THEN [f EXCEPT !.x = @ + 1]
    ELSE IF f.y + 1 < f.height THEN [f EXCEPT !.x = 0, !.y = @ + 1]
    ELSE [f EXCEPT !.x = 0, !.y = 0, !.z = @ + 1]

\* The for-loop increments: x innermost, then y, then z with the linear-side
\* pointer advanced by slice_pitch (lines 134-136, 145 and 166-168, 176).
LoopAdvance(f) ==
    IF f.x + 1 < f.width THEN [f EXCEPT !.x = @ + 1]
    ELSE IF f.y + 1 < f.height THEN [f EXCEPT !.x = 0, !.y = @ + 1]
    ELSE [f EXCEPT !.x = 0, !.y = 0, !.z = @ + 1, !.base = @ + f.slice_pitch]

\* The loops have a pixel left (width and height are at least 1).
InLoop(f) == f.z < f.depth

RECURSIVE BoxLoop(_)
\* The three nested loops run to their end.
BoxLoop(f) == IF InLoop(f) THEN BoxLoop(LoopAdvance(PixelCopy(f))) ELSE f

\* swizzle_box as a function: the destination buffer it leaves.
swizzle_box(src_buf, width, height, depth, dst_buf, row_pitch, slice_pitch, bytes_per_pixel) ==
    BoxLoop(BoxSetup(BoxFrame("swizzle_box", src_buf, width, height, depth, dst_buf,
                              row_pitch, slice_pitch, bytes_per_pixel))).dst_buf

\* unswizzle_box as a function: the destination buffer it leaves.
unswizzle_box(src_buf, width, height, depth, dst_buf, row_pitch, slice_pitch, bytes_per_pixel) ==
    BoxLoop(BoxSetup(BoxFrame("unswizzle_box", src_buf, width, height, depth, dst_buf,
                              row_pitch, slice_pitch, bytes_per_pixel))).dst_buf

\* Mutant: the wrapper passes height and width in each other's place.
swizzle_rect_swapped(src_buf, width, height, dst_buf, pitch, bytes_per_pixel) ==
    BoxFrame("swizzle_box", src_buf, height, width, 1, dst_buf, pitch, 0, bytes_per_pixel)

\* swizzle_rect (lines 191-200): the call of swizzle_box it makes.
swizzle_rect(src_buf, width, height, dst_buf, pitch, bytes_per_pixel) ==
    BoxFrame("swizzle_box", src_buf, width, height, 1, dst_buf, pitch, 0, bytes_per_pixel)

\* unswizzle_rect (lines 180-189): the call of unswizzle_box it makes.
unswizzle_rect(src_buf, width, height, dst_buf, pitch, bytes_per_pixel) ==
    BoxFrame("unswizzle_box", src_buf, width, height, 1, dst_buf, pitch, 0, bytes_per_pixel)

\* ------------------------------------------------------------- state

VARIABLES
    pc,       \* position of the running call
    gen,      \* frame of generate_swizzle_masks
    masks,    \* what generate_swizzle_masks stored through mask_x, mask_y, mask_z
    mm,       \* frame of generate_expand_mask_moves
    ex,       \* frame of expand
    value,    \* the argument x the caller passed to expand
    result,   \* what expand returned
    caller,   \* the caller of the box copier: its arguments and buffers
    box,      \* frame of swizzle_box / unswizzle_box
    copied,   \* the pixel copies the running box call has made, in order:
              \* coordinate and swizzled byte offset of each
    pending   \* coordinates not copied yet, when the copies run in arbitrary order

vars == <<pc, gen, masks, mm, ex, value, result, caller, box, copied, pending>>


\* Value of a frame no call has set up.
None == "none"

\* The box copier is not running.
BoxIdle == caller = None /\ box = None /\ copied = <<>> /\ pending = {}

\* The caller's three mask words before generate_swizzle_masks stores them.
NoMasks == [mask_x |-> {}, mask_y |-> {}, mask_z |-> {}]

\* -------------------------------- runs of generate_swizzle_masks

\* The dimensions of the 32-bit runs: small ones, and the ones around the
\* places where bit (2^31) and mask_bit (32 mask bits in all) leave the word.
WideDims ==
    {ToWord(n) : n \in 1 .. MaxWideSmall}
        \cup {{11}, {0, 11}, {16}, {30}, 0 .. 30, {31}, {0, 31}, BitPos}

\* 2^31, the largest value bit takes before it wraps to 0.
TopBit == {W - 1}

InitMasks ==
    /\ pc = "gen_loop"
    /\ gen \in {GenStart(ToWord(w), ToWord(h), ToWord(d)) :
                    w \in 1 .. MaxGenDim, h \in 1 .. MaxGenDim, d \in 1 .. MaxGenDim}
    /\ masks = NoMasks /\ mm = None /\ ex = None /\ value = {} /\ result = {}
    /\ BoxIdle

InitWide ==
    /\ pc = "gen_loop"
    /\ gen \in {GenStart(w, h, d) : w \in WideDims, h \in WideDims, d \in WideDims}
    /\ masks = NoMasks /\ mm = None /\ ex = None /\ value = {} /\ result = {}
    /\ BoxIdle

\* A round begins: done = true (line 50).
GenEnter ==
    /\ pc = "gen_loop"
    /\ gen' = [gen EXCEPT !.done = TRUE]
    /\ pc' = "gen_round"
    /\ UNCHANGED <<masks, mm, ex, value, result, caller, box, copied, pending>>

\* The rest of the do/while body and the loop condition (lines 51-55).
GenRound ==
    /\ pc = "gen_round"
    /\ gen' = Round(gen)
    /\ pc' = IF gen'.done THEN "gen_assert" ELSE "gen_loop"
    /\ UNCHANGED <<masks, mm, ex, value, result, caller, box, copied, pending>>

\* The assertion and the three stores (lines 56-59).
GenReturn ==
    /\ pc = "gen_assert"
    /\ IF GenAssertion(gen)
       THEN /\ pc' = "gen_returned"
            /\ masks' = [mask_x |-> gen.x, mask_y |-> gen.y, mask_z |-> gen.z]
       ELSE /\ pc' = "gen_abort"
            /\ masks' = masks
    /\ UNCHANGED <<gen, mm, ex, value, result, caller, box, copied, pending>>

NextGen == GenEnter \/ GenRound \/ GenReturn

SpecMasks == InitMasks /\ [][NextGen]_vars

\* The function is synchronous and non-suspending: a step that can be taken is taken.
SpecWide == InitWide /\ [][NextGen]_vars /\ WF_vars(NextGen)

\* ------------------------------------------------- runs of expand

\* Masks of up to MaskBits bits, dense and spread over the word, and the
\* complements of the dense ones.
SpreadMasks ==
    {{off + p * st : p \in S} :
        S \in SUBSET (0 .. (MaskBits - 1)), st \in {1, 3, 5}, off \in {0, 1}}

ExpandMasks ==
    SpreadMasks \cup {Not(m) : m \in SUBSET (0 .. (MaskBits - 1))}

ExpandValues ==
    LET low == {ToWord(n) : n \in 0 .. (2 ^ MaskBits - 1)}
    IN  low \cup {Shl(v, 20) \cup {0} : v \in low} \cup {BitPos, TopBit}

InitExpand ==
    /\ pc = "moves_loop"
    /\ \E m \in ExpandMasks, v \in ExpandValues :
          /\ mm = MovesStart(m)
          /\ ex = ExpandStart(v, [mask |-> m, moves |-> <<>>])
          /\ value = v
    /\ gen = None /\ masks = NoMasks /\ result = {}
    /\ BoxIdle

\* One iteration of the loop of generate_expand_mask_moves.
MovesIter ==
    /\ pc = "moves_loop"
    /\ mm.i < Stages
    /\ mm' = MovesStage(mm)
    /\ UNCHANGED <<pc, gen, masks, ex, value, result, caller, box, copied, pending>>

\* generate_expand_mask_moves returns; the caller goes on to expand.
MovesReturn ==
    /\ pc = "moves_loop"
    /\ ~(mm.i < Stages)
    /\ ex' = [ex EXCEPT !.em.moves = mm.moves]
    /\ pc' = "expand_loop"
    /\ UNCHANGED <<gen, masks, mm, value, result, caller, box, copied, pending>>

\* One iteration of the loop of expand.
ExpandIter ==
    /\ pc = "expand_loop"
    /\ ex.i >= 0
    /\ ex' = ExpandStage(ex)
    /\ UNCHANGED <<pc, gen, masks, mm, value, result, caller, box, copied, pending>>

\* The return of expand.
ExpandReturn ==
    /\ pc = "expand_loop"
    /\ ~(ex.i >= 0)
    /\ result' = ExpandResult(ex)
    /\ pc' = "expand_returned"
    /\ UNCHANGED <<gen, masks, mm, ex, value, caller, box, copied, pending>>

NextExpand == MovesIter \/ MovesReturn \/ ExpandIter \/ ExpandReturn

SpecExpand == InitExpand /\ [][NextExpand]_vars

\* ------------------------------------------ runs of the box copier

\* Byte patterns of the buffers a caller passes in: source bytes
\* (a * mul + add) % 256 at address a, destination bytes all fill.
Patterns == {[mul |-> 1, add |-> 0, fill |-> 255], [mul |-> 7, add |-> 3, fill |-> 0]}

\* Bytes of a linear buffer that holds every row of every slice.
LinearSize(height, depth, row_pitch, slice_pitch) == (depth - 1) * slice_pitch + height * row_pitch

\* Bytes of a swizzled buffer that holds every offset the masks can produce.
SwizzledSize(width, height, depth, bytes_per_pixel) ==
    bytes_per_pixel
        * Val(generate_swizzle_masks(ToWord(width), ToWord(height), ToWord(depth)).mask_bit)

Filled(n, pat) == [a \in 0 .. (n - 1) |-> (a * pat.mul + pat.add) % 256]

Blank(n, pat) == [a \in 0 .. (n - 1) |-> pat.fill]

\* What a caller holds: which pair of entry points it uses, the arguments, the
\* linear buffer B it starts from, and the sizes of its two buffers.
Caller(entry, width, height, depth, bytes_per_pixel, rpad, spad, pat) ==
    LET row_pitch   == width * bytes_per_pixel + rpad
        slice_pitch == IF entry = "box" THEN height * row_pitch + spad ELSE 0
    IN  [entry |-> entry, width |-> width, height |-> height, depth |-> depth,
         row_pitch |-> row_pitch, slice_pitch |-> slice_pitch,
         bytes_per_pixel |-> bytes_per_pixel, pat |-> pat,
         linear_size |-> LinearSize(height, depth, row_pitch, slice_pitch),
         swizzled_size |-> SwizzledSize(width, height, depth, bytes_per_pixel),
         B |-> Filled(LinearSize(height, depth, row_pitch, slice_pitch), pat)]

Callers ==
    {Caller("box", w, h, d, b, rp, sp, pat) :
        w \in 1 .. MaxDim, h \in 1 .. MaxDim, d \in 1 .. MaxDim, b \in 1 .. MaxBpp,
        rp \in {0, MaxPad}, sp \in {0, MaxPad}, pat \in Patterns}
    \cup
    {Caller("rect", w, h, 1, b, rp, 0, pat) :
        w \in 1 .. MaxDim, h \in 1 .. MaxDim, b \in 1 .. MaxBpp,
        rp \in {0, MaxPad}, pat \in Patterns}

InitBox ==
    /\ pc = "call_swizzle"
    /\ caller \in Callers
    /\ box = None /\ copied = <<>> /\ pending = {}
    /\ gen = None /\ masks = NoMasks /\ mm = None /\ ex = None /\ value = {} /\ result = {}

\* The caller calls swizzle_box on B and a fresh swizzled buffer.
CallSwizzleBox ==
    /\ pc = "call_swizzle"
    /\ caller.entry = "box"
    /\ box' = BoxFrame("swizzle_box", caller.B, caller.width, caller.height, caller.depth,
                       Blank(caller.swizzled_size, caller.pat),
                       caller.row_pitch, caller.slice_pitch, caller.bytes_per_pixel)
    /\ pc' = "setup"
    /\ copied' = <<>>
    /\ UNCHANGED <<gen, masks, mm, ex, value, result, caller, pending>>

\* The caller calls swizzle_rect on B and a fresh swizzled buffer.
CallSwizzleRect ==
    /\ pc = "call_swizzle"
    /\ caller.entry = "rect"
    /\ box' = swizzle_rect(caller.B, caller.width, caller.height,
                           Blank(caller.swizzled_size, caller.pat),
                           caller.row_pitch, caller.bytes_per_pixel)
    /\ pc' = "setup"
    /\ copied' = <<>>
    /\ UNCHANGED <<gen, masks, mm, ex, value, result, caller, pending>>

\* The masks and the scatter tables are built (lines 127-131, 159-163).
Setup ==
    /\ pc = "setup"
    /\ box' = BoxSetup(box)
    /\ pc' = "loop"
    /\ UNCHANGED <<gen, masks, mm, ex, value, result, caller, copied, pending>>

\* The record of the copy the loop body is about to make.
ThisCopy(f) == [x |-> f.x, y |-> f.y, z |-> f.z, off |-> SwizzledOffset(f)]

\* One iteration of the innermost loop of swizzle_box, with the increments.
SwizzleStep ==
    /\ pc = "loop"
    /\ box.fn = "swizzle_box"
    /\ InLoop(box)
    /\ box' = LoopAdvance(SwizzleCopy(box))
    /\ copied' = Append(copied, ThisCopy(box))
    /\ UNCHANGED <<pc, gen, masks, mm, ex, value, result, caller, pending>>

\* One iteration of the innermost loop of unswizzle_box, with the increments.
UnswizzleStep ==
    /\ pc = "loop"
    /\ box.fn = "unswizzle_box"
    /\ InLoop(box)
    /\ box' = LoopAdvance(UnswizzleCopy(box))
    /\ copied' = Append(copied, ThisCopy(box))
    /\ UNCHANGED <<pc, gen, masks, mm, ex, value, result, caller, pending>>

\* The loops end and the function returns.
BoxReturn ==
    /\ pc = "loop"
    /\ ~InLoop(box)
    /\ pc' = IF box.fn = "swizzle_box" THEN "call_unswizzle" ELSE "done"
    /\ UNCHANGED <<gen, masks, mm, ex, value, result, caller, box, copied, pending>>

\* The caller calls unswizzle_box on the swizzled result and a fresh linear
\* buffer, with the dimensions, pitches and pixel size of the first call.
CallUnswizzleBox ==
    /\ pc = "call_unswizzle"
    /\ caller.entry = "box"
    /\ box' = BoxFrame("unswizzle_box", box.dst_buf, caller.width, caller.height, caller.depth,
                       Blank(caller.linear_size, caller.pat),
                       caller.row_pitch, caller.slice_pitch, caller.bytes_per_pixel)
    /\ pc' = "setup"
    /\ copied' = <<>>
    /\ UNCHANGED <<gen, masks, mm, ex, value, result, caller, pending>>

\* The caller calls unswizzle_rect on the swizzled result and a fresh linear buffer.
CallUnswizzleRect ==
    /\ pc = "call_unswizzle"
    /\ caller.entry = "rect"
    /\ box' = unswizzle_rect(box.dst_buf, caller.width, caller.height,
                             Blank(caller.linear_size, caller.pat),
                             caller.row_pitch, caller.bytes_per_pixel)
    /\ pc' = "setup"
    /\ copied' = <<>>
    /\ UNCHANGED <<gen, masks, mm, ex, value, result, caller, pending>>

NextBox ==
    \/ CallSwizzleBox
    \/ CallSwizzleRect
    \/ Setup
    \/ SwizzleStep
    \/ UnswizzleStep
    \/ BoxReturn
    \/ CallUnswizzleBox
    \/ CallUnswizzleRect

SpecBox == InitBox /\ [][NextBox]_vars

\* --------------------- the pixel copies of one call in arbitrary order

\* Number of workers that share the coordinates of one call.
Workers == 2

\* A caller of one box call whose copies are reordered: the function, the
\* arguments, both buffers as passed in, and how the coordinates are shared
\* out ("any": every order; "z" / "y": worker k takes the slices / rows
\* numbered k modulo Workers and copies them in loop order).
ParCaller(fn, width, height, depth, bytes_per_pixel, pad, pat, partition) ==
    LET row_pitch   == width * bytes_per_pixel + pad
        slice_pitch == height * row_pitch + pad
        lin         == LinearSize(height, depth, row_pitch, slice_pitch)
        swz         == SwizzledSize(width, height, depth, bytes_per_pixel)
    IN  [fn |-> fn, width |-> width, height |-> height, depth |-> depth,
         row_pitch |-> row_pitch, slice_pitch |-> slice_pitch,
         bytes_per_pixel |-> bytes_per_pixel, partition |-> partition,
         src_buf |-> IF fn = "swizzle_box" THEN Filled(lin, pat) ELSE Filled(swz, pat),
         dst_buf |-> IF fn = "swizzle_box" THEN Blank(swz, pat) ELSE Blank(lin, pat)]

ParCallers ==
    {ParCaller(fn, dims[1], dims[2], dims[3], b, pad, pat, part) :
        fn \in {"swizzle_box", "unswizzle_box"},
        dims \in {d \in (1 .. MaxParPixels) \X (1 .. MaxParPixels) \X (1 .. MaxParPixels) :
                     d[1] * d[2] * d[3] <= MaxParPixels},
        b \in 1 .. MaxBpp, pad \in {0, MaxPad}, pat \in Patterns,
        part \in {"any", "z", "y"}}

\* The frame of the call a ParCaller makes, after the masks and tables are built.
ParFrame(c) ==
    BoxSetup(BoxFrame(c.fn, c.src_buf, c.width, c.height, c.depth, c.dst_buf,
                      c.row_pitch, c.slice_pitch, c.bytes_per_pixel))

Coordinates(width, height, depth) ==
    (0 .. (width - 1)) \X (0 .. (height - 1)) \X (0 .. (depth - 1))

InitPar ==
    /\ pc = "par_loop"
    /\ caller \in ParCallers
    /\ box = ParFrame(caller)
    /\ pending = Coordinates(caller.width, caller.height, caller.depth)
    /\ copied = <<>>
    /\ gen = None /\ masks = NoMasks /\ mm = None /\ ex = None /\ value = {} /\ result = {}

\* The worker a coordinate belongs to.
WorkerOf(c) ==
    IF caller.partition = "z" THEN c[3] % Workers
    ELSE IF caller.partition = "y" THEN c[2] % Workers
    ELSE 0

\* Loop order: z outermost, x innermost.
Before(c, d) ==
    \/ c[3] < d[3]
    \/ c[3] = d[3] /\ c[2] < d[2]
    \/ c[3] = d[3] /\ c[2] = d[2] /\ c[1] < d[1]

\* A coordinate that may be copied next: any pending one, or the first pending
\* one of some worker.
Ready(c) ==
    /\ c \in pending
    /\ caller.partition # "any"
          => \A d \in pending : WorkerOf(d) = WorkerOf(c) => ~Before(d, c)

\* The frame positioned at coordinate c, as the loops position it.
At(f, c) == [f EXCEPT !.x = c[1], !.y = c[2], !.z = c[3], !.base = c[3] * f.slice_pitch]

\* The loop body of swizzle_box at some ready coordinate.
ParSwizzleCopy ==
    /\ pc = "par_loop"
    /\ box.fn = "swizzle_box"
    /\ \E c \in pending :
          /\ Ready(c)
          /\ box' = SwizzleCopy(At(box, c))
          /\ pending' = pending \ {c}
    /\ pc' = IF pending' = {} THEN "par_done" ELSE "par_loop"
    /\ UNCHANGED <<gen, masks, mm, ex, value, result, caller, copied>>

\* The loop body of unswizzle_box at some ready coordinate.
ParUnswizzleCopy ==
    /\ pc = "par_loop"
    /\ box.fn = "unswizzle_box"
    /\ \E c \in pending :
          /\ Ready(c)
          /\ box' = UnswizzleCopy(At(box, c))
          /\ pending' = pending \ {c}
    /\ pc' = IF pending' = {} THEN "par_done" ELSE "par_loop"
    /\ UNCHANGED <<gen, masks, mm, ex, value, result, caller, copied>>

NextPar == ParSwizzleCopy \/ ParUnswizzleCopy

SpecPar == InitPar /\ [][NextPar]_vars

\* ===================================================================
\* Properties
\* ===================================================================

\* Smallest k with 2^k >= n.
CeilLog2(n) == CHOOSE k \in 0 .. (W - 2) : 2 ^ k >= n /\ \A j \in 0 .. (k - 1) : 2 ^ j < n

\* generate_swizzle_masks has left its loop.
GenLoopLeft == pc \in {"gen_assert", "gen_returned", "gen_abort"}

\* C4: whenever generate_swizzle_masks leaves its loop, the masks x, y, z are
\* pairwise disjoint, their union is a contiguous range of low bits, that range
\* equals mask_bit - 1, and the assertion (x ^ y ^ z) == (mask_bit - 1) holds,
\* so the call never aborts.
C4_MasksDisjointContiguous ==
    GenLoopLeft =>
        /\ gen.x \cap gen.y = {}
        /\ gen.y \cap gen.z = {}
        /\ gen.x \cap gen.z = {}
        /\ \E n \in 0 .. W : gen.x \cup gen.y \cup gen.z = 0 .. (n - 1)
        /\ gen.x \cup gen.y \cup gen.z = Dec(gen.mask_bit)
        /\ GenAssertion(gen)
        /\ pc # "gen_abort"

\* C4 witness: a call with three differently sized axes has returned.
C4_Witness ==
    /\ pc = "gen_returned"
    /\ masks.mask_x # {} /\ masks.mask_y # {} /\ masks.mask_z # {}
    /\ Cardinality(masks.mask_x) > Cardinality(masks.mask_y)
    /\ Cardinality(masks.mask_y) > Cardinality(masks.mask_z)

\* C8: generate_swizzle_masks(4, 4, 1) returns mask_x = 5, mask_y = 10,
\* mask_z = 0, and for width = height = 2^n, depth = 1 the X mask is the even
\* positions 0..2n-2, the Y mask the odd positions 1..2n-1 and the Z mask 0.
C8_ClassicZOrder ==
    pc = "gen_returned" =>
        /\ (gen.width = ToWord(4) /\ gen.height = ToWord(4) /\ gen.depth = ToWord(1))
              => /\ Val(masks.mask_x) = 5
                 /\ Val(masks.mask_y) = 10
                 /\ Val(masks.mask_z) = 0
        /\ \A n \in 0 .. (W - 2) :
              (gen.width = {n} /\ gen.height = {n} /\ gen.depth = {0})
                 => /\ masks.mask_x = {2 * i : i \in 0 .. (n - 1)}
                    /\ masks.mask_y = {2 * i + 1 : i \in 0 .. (n - 1)}
                    /\ masks.mask_z = {}

\* C8 witness: the call for 4 x 4 x 1 has returned.
C8_Witness ==
    /\ pc = "gen_returned"
    /\ gen.width = ToWord(4) /\ gen.height = ToWord(4) /\ gen.depth = ToWord(1)

\* C9 (as claimed): for every width, height, depth >= 1 that fits an unsigned
\* 32-bit integer, generate_swizzle_masks eventually returns.
C9_AlwaysTerminates == <>(pc = "gen_returned")

\* All three dimensions are at most 2^31.
DimsUpToTopBit ==
    /\ ~Less(TopBit, gen.width)
    /\ ~Less(TopBit, gen.height)
    /\ ~Less(TopBit, gen.depth)

\* C9 (amended): a call whose dimensions are all at most 2^31 eventually returns.
C9_TerminatesUpToTopBit == (pc = "gen_loop" /\ DimsUpToTopBit) ~> (pc = "gen_returned")

\* C9 witness: a call returned after bit wrapped to 0 (a dimension above 2^30).
C9_Witness == pc = "gen_returned" /\ gen.bit = {} /\ Less({W - 2}, gen.width)

C5_ExpandIsDeposit ==
    pc = "expand_returned" =>
        /\ result = Pdep(value, ex.em.mask)
        /\ result \subseteq ex.em.mask
        /\ \A p \in ex.em.mask :
              (p \in result) <=> (Cardinality({q \in ex.em.mask : q < p}) \in value)

\* C5 witness: expand returned a value whose bits were moved by the last
\* stage of the table (a move of 16 positions).
C5_Witness ==
    /\ pc = "expand_returned"
    /\ ex.em.moves[Stages] # {}
    /\ result \cap ex.em.moves[Stages] # {}

\* A box call has run its loops to the end.
BoxReturned == pc \in {"call_unswizzle", "done"}

\* Addresses of the linear buffer that belong to a pixel of the caller's box.
PixelBytes(c) ==
    {z * c.slice_pitch + y * c.row_pitch + x * c.bytes_per_pixel + b :
        x \in 0 .. (c.width - 1), y \in 0 .. (c.height - 1), z \in 0 .. (c.depth - 1),
        b \in 0 .. (c.bytes_per_pixel - 1)}

\* The linear buffer has no padding between rows or slices.
TightPitches(c) == PixelBytes(c) = DOMAIN c.B

PixelOffsets == {copied[i].off \div box.bytes_per_pixel : i \in DOMAIN copied}

\* C3 (as claimed): for any dimensions the pixel offsets of a call are exactly
\* 0 .. width*height*depth - 1, so every swizzled-side access lies inside
\* width*height*depth*bytes_per_pixel bytes.
C3_ImageIsExactRange ==
    BoxReturned =>
        /\ PixelOffsets = 0 .. (box.width * box.height * box.depth - 1)
        /\ \A i \in DOMAIN copied :
              copied[i].off + box.bytes_per_pixel
                  <= box.width * box.height * box.depth * box.bytes_per_pixel

IsPow2(n) == \E k \in 0 .. (W - 2) : n = 2 ^ k

\* Number of mask bits of the three axes together.
TotalBits(f) ==
    Cardinality(f.mask_x.mask) + Cardinality(f.mask_y.mask) + Cardinality(f.mask_z.mask)

\* C3 (amended): the pixel offsets of a call lie in 0 .. 2^k - 1, k the number
\* of mask bits of the three axes together, and every swizzled-side access lies
\* inside 2^k * bytes_per_pixel bytes; when width, height and depth are powers
\* of two the pixel offsets are exactly 0 .. width*height*depth - 1.
C3_ImageWithinMaskRange ==
    BoxReturned =>
        /\ PixelOffsets \subseteq 0 .. (2 ^ TotalBits(box) - 1)
        /\ \A i \in DOMAIN copied :
              copied[i].off + box.bytes_per_pixel
                  <= (2 ^ TotalBits(box)) * box.bytes_per_pixel
        /\ (IsPow2(box.width) /\ IsPow2(box.height) /\ IsPow2(box.depth))
              => PixelOffsets = 0 .. (box.width * box.height * box.depth - 1)

\* C3 witness: a call for a 3 x 2 x 1 box has returned and used pixel offset 6.
C3_Witness ==
    /\ BoxReturned
    /\ box.width = 3 /\ box.height = 2 /\ box.depth = 1
    /\ 6 \in PixelOffsets

\* C6: what swizzle_rect leaves in dst is what swizzle_box leaves for the same
\* src, width, height, dst, pitch and pixel size with depth 1 and slice_pitch 0,
\* and likewise unswizzle_rect and unswizzle_box; in these calls the Z mask is 0
\* and every offset is made of the X and Y scatter alone.
C6_RectIsBoxOfDepthOne ==
    caller.entry = "rect" =>
        /\ pc = "call_unswizzle" =>
              box.dst_buf = swizzle_box(caller.B, caller.width, caller.height, 1,
                                        Blank(caller.swizzled_size, caller.pat),
                                        caller.row_pitch, 0, caller.bytes_per_pixel)
        /\ pc = "done" =>
              box.dst_buf = unswizzle_box(box.src_buf, caller.width, caller.height, 1,
                                          Blank(caller.linear_size, caller.pat),
                                          caller.row_pitch, 0, caller.bytes_per_pixel)
        /\ pc \in {"loop", "call_unswizzle", "done"} =>
              /\ box.mask_z.mask = {}
              /\ \A i \in DOMAIN copied :
                    copied[i].off = box.bytes_per_pixel
                        * Val(expand(ToWord(copied[i].x), box.mask_x)
                                \cup expand(ToWord(copied[i].y), box.mask_y))

\* C6 witness: swizzle_rect and unswizzle_rect have run on a 4 x 3 rectangle
\* with padded rows.
C6_Witness ==
    /\ pc = "done"
    /\ caller.entry = "rect"
    /\ caller.width = 4 /\ caller.height = 3
    /\ caller.row_pitch > caller.width * caller.bytes_per_pixel

\* C7: when the pixel copies of one call have all run, in any order or shared
\* out to workers by slice or by row, the destination buffer is the one the
\* sequential loops leave.
C7_OrderIndependent ==
    pc = "par_done" =>
        box.dst_buf =
            IF caller.fn = "swizzle_box"
            THEN swizzle_box(caller.src_buf, caller.width, caller.height, caller.depth,
                             caller.dst_buf, caller.row_pitch, caller.slice_pitch,
                             caller.bytes_per_pixel)
            ELSE unswizzle_box(caller.src_buf, caller.width, caller.height, caller.depth,
                               caller.dst_buf, caller.row_pitch, caller.slice_pitch,
                               caller.bytes_per_pixel)

\* C7 witness: the copies of a 3 x 2 x 1 box have all run, shared out by row.
C7_Witness ==
    /\ pc = "par_done"
    /\ caller.partition = "y"
    /\ caller.width = 3 /\ caller.height = 2 /\ caller.depth = 1

====
